---- MODULE Spec2Model ----
(***************************************************************************)
(* Model of the c-dleq engines: the Ristretto engine                        *)
(* (src/src/engines/ristretto.rs) and the Ed25519 engine                    *)
(* (src/src/dl_eq_engines/ed25519_engine.rs).                               *)
(*                                                                         *)
(* The curve is scaled down.  curve25519's prime subgroup order is          *)
(* 2^252 + 27742317777372353535851937790883648493 and a scalar is encoded   *)
(* in 32 bytes; here the order is 2^4 + 1 and a scalar is encoded in one    *)
(* byte, so that, as in the source, the order needs one bit more than       *)
(* scalar_bits() and the byte encoding has room for about 15 multiples of   *)
(* the order.  The Edwards group is Z_Order x Z_8 (cofactor 8); the         *)
(* Ristretto group is the prime-order quotient, Z_Order.                    *)
(***************************************************************************)
EXTENDS Integers, Sequences, FiniteSets, TLC

\* ------------------------------------------------------------------ bounds

\* generate_commitments is called with bits in 0..MaxBits (Ristretto).
MaxBits == 5

\* Messages are the byte strings <<>>, <<0>>, ..., <<MaxMsgByte>>.
MaxMsgByte == 1

\* ------------------------------------------------------- scalars and bytes

\* scalar_bits(): 252 in the source, for an order just above 2^252.
scalar_bits == 4

\* The group order (a prime just above 2^scalar_bits).
Order == 2^scalar_bits + 1

\* Scalars are [u8; 32] in the source; one byte here.
ScalarLen == 1

Scalar == 0..(Order - 1)

Engines == {"Ristretto", "Ed25519"}

\* The cofactor of the group the engine's PublicKey lives in.
Cofactor(e) == IF e = "Ed25519" THEN 8 ELSE 1

ScalarAdd(a, b) == (a + b) % Order

ScalarSubtract(a, b) == (a + Order - b) % Order

ScalarMul(a, b) == (a * b) % Order

ScalarNeg(a) == (Order - a) % Order

RECURSIVE ScalarPow(_, _)
ScalarPow(a, n) == IF n = 0 THEN 1 ELSE ScalarMul(a, ScalarPow(a, n - 1))

\* Scalar::invert: a^(Order - 2), which is 0 for a = 0.
ScalarInvert(a) == ScalarPow(a, Order - 2)

\* The integer a little-endian byte string encodes.
RECURSIVE LittleEndianValue(_)
LittleEndianValue(bytes) ==
  IF bytes = <<>> THEN 0
  ELSE Head(bytes) + 256 * LittleEndianValue(Tail(bytes))

\* The n little-endian bytes of v (the low n bytes when v is larger).
RECURSIVE ToLittleEndian(_, _)
ToLittleEndian(v, n) ==
  IF n = 0 THEN <<>> ELSE <<v % 256>> \o ToLittleEndian(v \div 256, n - 1)

\* Scalar::to_bytes
ScalarToBytes(s) == ToLittleEndian(s, ScalarLen)

\* Scalar::from_bytes_mod_order as the engines call it, and
\* Scalar::from_bytes_mod_order_wide / Scalar::from_hash on a digest:
\* the encoded integer reduced modulo the order.
from_bytes_mod_order(bytes) == LittleEndianValue(bytes) % Order

\* Scalar::from_canonical_bytes as the engines call it: None unless the
\* encoded integer is below the order.
from_canonical_bytes(bytes) ==
  IF LittleEndianValue(bytes) < Order
  THEN [some |-> TRUE, v |-> LittleEndianValue(bytes)]
  ELSE [some |-> FALSE, v |-> 0]

\* ------------------------------------------------------------------ points

\* A point is its prime-order component p (the multiple of the basepoint)
\* and its small-order component t.
Point(e) == [p : Scalar, t : 0..(Cofactor(e) - 1)]

Identity == [p |-> 0, t |-> 0]

\* RISTRETTO_BASEPOINT_POINT / ED25519_BASEPOINT_POINT
BASEPOINT == [p |-> 1, t |-> 0]

\* ALT_BASEPOINT: a torsion-free generator other than the basepoint.
ALT_BASEPOINT == [p |-> 3, t |-> 0]

PointAdd(e, P, Q) ==
  [p |-> (P.p + Q.p) % Order, t |-> (P.t + Q.t) % Cofactor(e)]

PointSub(e, P, Q) ==
  [p |-> (P.p + Order - Q.p) % Order,
   t |-> (P.t + Cofactor(e) - Q.t) % Cofactor(e)]

\* scalar * point
PointMul(e, s, P) ==
  [p |-> (s * P.p) % Order, t |-> (s * P.t) % Cofactor(e)]

is_torsion_free(P) == P.t = 0

\* compress().to_bytes(), point_len() bytes (one here): an injective
\* encoding that leaves some byte strings encoding no point.
Compress(e, P) == <<P.p + Order * P.t>>

Decompress(e, bytes) ==
  IF Len(bytes) = 1 /\ bytes[1] < Order * Cofactor(e)
  THEN [some |-> TRUE, v |-> [p |-> bytes[1] % Order, t |-> bytes[1] \div Order]]
  ELSE [some |-> FALSE, v |-> Identity]

to_public_key(e, key) == PointMul(e, key, BASEPOINT)

blinding_key_to_public(e, key) == PointMul(e, key, ALT_BASEPOINT)

\* -------------------------------------------------- commitment generation

\* crate::SHARED_KEY_BITS, the bit count of the Ed25519 engine's loop.
SHARED_KEY_BITS == scalar_bits

\* A bit read with the byte index as the shift.
KeyBit_ShiftByByteIndex(key, i) == (key[(i \div 8) + 1] \div 2^(i \div 8)) % 2

\* (key[i/8] >> (i % 8)) & 1
KeyBit(key, i) == (key[(i \div 8) + 1] \div 2^(i % 8)) % 2

\* A last-index test that is one off.
IsLastIndex_OffByOne(i, bits) == i = bits

\* i == (bits - 1)
IsLastIndex(i, bits) == i = bits - 1

\* A last blinding key without the negation.
LastBlindingKey_NotNegated(total, power) ==
  ScalarMul(total, ScalarInvert(power))

\* -blinding_key_total * power_of_two.invert()
LastBlindingKey(total, power) ==
  ScalarMul(ScalarNeg(total), ScalarInvert(power))

\* A pair whose branches are swapped.
CommitmentPair_Swapped(e, commitment_base, bit) ==
  IF bit = 0
  THEN [commitment |-> PointAdd(e, commitment_base, BASEPOINT),
        commitment_minus_one |-> commitment_base]
  ELSE [commitment |-> commitment_base,
        commitment_minus_one |-> PointSub(e, commitment_base, BASEPOINT)]

\* The (commitment, commitment_minus_one) pair of one bit.
CommitmentPair(e, commitment_base, bit) ==
  IF bit = 1
  THEN [commitment |-> PointAdd(e, commitment_base, BASEPOINT),
        commitment_minus_one |-> commitment_base]
  ELSE [commitment |-> commitment_base,
        commitment_minus_one |-> PointSub(e, commitment_base, BASEPOINT)]

\* commitment_sub_one
commitment_sub_one(e, commitment) == PointSub(e, commitment, BASEPOINT)

\* compute_signature_s: nonce + Scalar::from_bytes_mod_order(challenge) * key
compute_signature_s(e, nonce, challenge, k) ==
  ScalarAdd(nonce, ScalarMul(from_bytes_mod_order(challenge), k))

\* A compute_signature_R over the standard basepoint.
compute_signature_R_Basepoint(e, s_value, challenge, P) ==
  [status |-> "Ok",
   point |-> PointSub(e, PointMul(e, s_value, BASEPOINT),
                      PointMul(e, from_bytes_mod_order(challenge), P))]

\* compute_signature_R:
\* Ok(s_value * ALT_BASEPOINT - Scalar::from_bytes_mod_order(challenge) * key)
compute_signature_R(e, s_value, challenge, P) ==
  [status |-> "Ok",
   point |-> PointSub(e, PointMul(e, s_value, ALT_BASEPOINT),
                      PointMul(e, from_bytes_mod_order(challenge), P))]

\* The loop of reconstruct_key: res += comm * power_of_two; power_of_two *= 2.
RECURSIVE ReconstructLoop(_, _, _, _)
ReconstructLoop(e, comms, power, res) ==
  IF comms = <<>> THEN res
  ELSE ReconstructLoop(e, Tail(comms), ScalarMul(power, 2),
                       PointAdd(e, res, PointMul(e, power, Head(comms))))

\* A reconstruct_key without the torsion check.
reconstruct_key_Unchecked(e, comms) ==
  [status |-> "Ok", point |-> ReconstructLoop(e, comms, 1, Identity)]

\* reconstruct_key: the Ed25519 engine refuses a result with torsion.
reconstruct_key(e, comms) ==
  LET res == ReconstructLoop(e, comms, 1, Identity)
  IN IF e = "Ed25519" /\ ~is_torsion_free(res)
     THEN [status |-> "Err", point |-> Identity]
     ELSE [status |-> "Ok", point |-> res]


\* ---------------------------------------------------------------- decoding

\* little_endian_bytes_to_private_key (bytes_to_private_key in the Ed25519
\* engine): the Ristretto engine decodes canonically, the Ed25519 engine
\* reduces modulo the order.
little_endian_bytes_to_private_key(e, bytes) ==
  IF e = "Ristretto"
  THEN LET c == from_canonical_bytes(bytes)
       IN IF c.some THEN [status |-> "Ok", v |-> c.v]
          ELSE [status |-> "InvalidScalar", v |-> 0]
  ELSE [status |-> "Ok", v |-> from_bytes_mod_order(bytes)]

\* point_len(): 32 in the source, one byte here.
PointLen == 1

\* signature_len(): 64 in the source.
SignatureLen == PointLen + ScalarLen

\* bytes_to_signature: the length check, then R and s decoded.
bytes_to_signature(e, sig) ==
  LET bad(err) == [status |-> err, R |-> Identity, s |-> 0]
  IN IF Len(sig) # SignatureLen
     THEN bad(IF e = "Ristretto" THEN "InvalidSignature" ELSE "Err")
     ELSE LET R == Decompress(e, SubSeq(sig, 1, PointLen))
              sc == little_endian_bytes_to_private_key(
                      e, SubSeq(sig, PointLen + 1, SignatureLen))
          IN IF ~R.some
             THEN bad(IF e = "Ristretto" THEN "InvalidSignature" ELSE "Err")
             ELSE IF sc.status # "Ok" THEN bad("InvalidSignature")
             ELSE [status |-> "Ok", R |-> R.v, s |-> sc.v]

\* --------------------------------------------------------------- signatures

\* Scalar::from_bytes_mod_order_wide / Scalar::from_hash: a whole digest
\* reduced modulo the order.
from_bytes_mod_order_wide(digest) == LittleEndianValue(digest) % Order

\* What sign hashes for its nonce (the Ristretto engine): key || message.
NonceInput(k, message) == ScalarToBytes(k) \o message

\* What sign and verify_signature hash for the challenge: R || A || message
\* in the Ed25519 engine, R || message in the Ristretto engine.
ChallengeInput(e, R, A, message) ==
  IF e = "Ristretto"
  THEN Compress(e, R) \o message
  ELSE Compress(e, R) \o Compress(e, A) \o message

\* The challenge scalar of a digest: the Ed25519 engine reduces the whole
\* digest, the Ristretto engine its first 32 bytes.
Challenge(e, digest) ==
  IF e = "Ristretto"
  THEN from_bytes_mod_order(SubSeq(digest, 1, ScalarLen))
  ELSE from_bytes_mod_order_wide(digest)

\* A sign that computes s as the other engine does.
SignResponse_OtherEngine(e, nonce, c, k) ==
  IF e = "Ristretto"
  THEN ScalarAdd(nonce, ScalarMul(c, k))
  ELSE ScalarSubtract(nonce, ScalarMul(k, c))

\* sign's s: k - key * c in the Ristretto engine, r + c * key in the
\* Ed25519 engine.
SignResponse(e, nonce, c, k) ==
  IF e = "Ristretto"
  THEN ScalarSubtract(nonce, ScalarMul(k, c))
  ELSE ScalarAdd(nonce, ScalarMul(c, k))

\* A verification that compares the points after clearing the cofactor.
VerifyEquation_Cofactored(e, A, c, R, s) ==
  LET lhs == IF e = "Ristretto"
             THEN PointAdd(e, PointMul(e, c, A), PointMul(e, s, BASEPOINT))
             ELSE PointSub(e, PointMul(e, s, BASEPOINT), PointMul(e, c, A))
  IN PointMul(e, Cofactor(e), lhs) = PointMul(e, Cofactor(e), R)

\* verify_signature's test: c * A + s * G == R in the Ristretto engine
\* (vartime_double_scalar_mul_basepoint), s * G - c * A == R in the Ed25519
\* engine.
VerifyEquation(e, A, c, R, s) ==
  IF e = "Ristretto"
  THEN PointAdd(e, PointMul(e, c, A), PointMul(e, s, BASEPOINT)) = R
  ELSE PointSub(e, PointMul(e, s, BASEPOINT), PointMul(e, c, A)) = R

\* ------------------------------------------------------------------- state

\* Inputs the callers use.
KeyValues == {0, 5, 11, 15, 2^scalar_bits, Order, Order + 5, 255}

Keys == {ToLittleEndian(v, ScalarLen) : v \in KeyValues}

\* Values the randomness source yields.
RandomScalars == {0, 1, 7, Order - 1}

VARIABLES
  engine,              \* the engine under test
  debug,               \* whether the build has debug assertions on
  task,                \* what the caller is doing: none, commit, sign, decode
  pc,                  \* generate_commitments: idle, loop, done
  key,                 \* generate_commitments: the key bytes
  bits,                \* generate_commitments: the bit count
  i,                   \* generate_commitments: the loop index
  blinding_key_total,  \* generate_commitments: the accumulator
  power_of_two,        \* generate_commitments: 2^i as a scalar
  commitments,         \* generate_commitments: the Vec built so far
  result,              \* generate_commitments: none, Ok, Err, panic
  rng,                 \* the scalars the randomness source yields, in order
  drawn,               \* how many of them the running call has drawn
  prev,                \* what an earlier call on the same inputs returned
  recon,               \* the caller's reconstruct_key call and its result
  oracle,              \* the digests the hash has given so far, by input
  signed,              \* the caller's sign call and the signature it returned
  verified,            \* the caller's verify_signature call and its result
  decoded,             \* the caller's decoding call and its result
  ring                 \* the caller's compute_signature_s / _R round trip

genVars == <<pc, key, bits, i, blinding_key_total, power_of_two, commitments,
             result, rng, drawn, prev, recon, ring>>

sigVars == <<oracle, signed, verified, decoded>>

vars == <<engine, debug, task, genVars, sigVars>>

NoSigned == [done |-> FALSE, key |-> 0, message |-> <<>>, nonce |-> 0,
             R |-> Identity, s |-> 0, input |-> <<>>, digest |-> <<>>,
             c |-> 0]

NoVerified == [done |-> FALSE, altered |-> "none", public_key |-> Identity,
               message |-> <<>>, R |-> Identity, s |-> 0, input |-> <<>>,
               digest |-> <<>>, c |-> 0, status |-> "none"]

NoDecoded == [done |-> FALSE, op |-> "none", bytes |-> <<>>, status |-> "none",
              v |-> 0, R |-> Identity]

NoRing == [done |-> FALSE, at |-> 0, side |-> "none", nonce |-> 0, key |-> 0,
           challenge |-> <<>>, public_key |-> Identity, s |-> 0,
           status |-> "none", R |-> Identity]

NoRecon == [called |-> FALSE, torsion |-> 0, at |-> 0, input |-> <<>>,
            status |-> "none", point |-> Identity]

Init ==
  /\ engine \in Engines
  /\ debug \in BOOLEAN
  /\ task = "none"
  /\ pc = "idle"
  /\ key = ToLittleEndian(0, ScalarLen)
  /\ bits = 0
  /\ i = 0
  /\ blinding_key_total = 0
  /\ power_of_two = 1
  /\ commitments = <<>>
  /\ result = "none"
  /\ rng = <<>>
  /\ drawn = 0
  /\ prev = [set |-> FALSE, commitments |-> <<>>]
  /\ recon = NoRecon
  /\ ring = NoRing
  /\ oracle = <<>>
  /\ signed = NoSigned
  /\ verified = NoVerified
  /\ decoded = NoDecoded

\* The bit counts a call can have: the Ristretto engine takes bits as an
\* argument, the Ed25519 engine loops over SHARED_KEY_BITS.
BitsOf(e) == IF e = "Ristretto" THEN 0..MaxBits ELSE {SHARED_KEY_BITS}

\* The caller calls generate_commitments(rng, key, bits): the locals before
\* the loop.
CallGenerate ==
  /\ task = "none"
  /\ task' = "commit"
  /\ key' \in Keys
  /\ bits' \in BitsOf(engine)
  /\ pc' = "loop"
  /\ i' = 0
  /\ blinding_key_total' = 0
  /\ power_of_two' = 1
  /\ commitments' = <<>>
  /\ result' = "none"
  /\ drawn' = 0
  /\ UNCHANGED <<engine, debug, rng, prev, recon>>
  /\ UNCHANGED <<sigVars, ring>>

\* The scalars the next draw can yield: what the stream already holds at
\* this position, or anything when the stream is read for the first time.
NextDraw == IF drawn < Len(rng) THEN {rng[drawn + 1]} ELSE RandomScalars

\* One iteration of the loop with blinding key b.
Iterate(b) ==
  LET pair == CommitmentPair(engine, blinding_key_to_public(engine, b),
                             KeyBit(key, i))
  IN /\ blinding_key_total' =
          ScalarAdd(blinding_key_total, ScalarMul(b, power_of_two))
     /\ power_of_two' = ScalarMul(power_of_two, 2)
     /\ commitments' = Append(commitments,
          [blinding_key |-> b,
           commitment |-> pair.commitment,
           commitment_minus_one |-> pair.commitment_minus_one])
     /\ i' = i + 1
     /\ UNCHANGED <<pc, result>>

\* The loop body for index i; key[i/8] panics past the end of the key.
LoopStep ==
  /\ pc = "loop"
  /\ i < bits
  /\ IF IsLastIndex(i, bits)
     THEN /\ UNCHANGED <<rng, drawn>>
          /\ IF i \div 8 < Len(key)
             THEN Iterate(LastBlindingKey(blinding_key_total, power_of_two))
             ELSE /\ pc' = "done"
                  /\ result' = "panic"
                  /\ UNCHANGED <<i, blinding_key_total, power_of_two,
                                 commitments>>
     ELSE \E b \in NextDraw :
          /\ rng' = IF drawn < Len(rng) THEN rng ELSE Append(rng, b)
          /\ drawn' = drawn + 1
          /\ IF i \div 8 < Len(key)
             THEN Iterate(b)
             ELSE /\ pc' = "done"
                  /\ result' = "panic"
                  /\ UNCHANGED <<i, blinding_key_total, power_of_two,
                                 commitments>>
  /\ UNCHANGED <<engine, debug, task, key, bits, prev, recon>>
  /\ UNCHANGED <<sigVars, ring>>

\* commitments.iter().map(|c| &c.commitment)
CommitmentFields(comms) == [j \in 1..Len(comms) |-> comms[j].commitment]

\* What the code after the loop ends in: the two debug assertions, the
\* canonical decoding of the key between them, and the return.
AfterLoop(e, dbg, k, total, comms) ==
  LET canon == from_canonical_bytes(k)
      rec == reconstruct_key(e, CommitmentFields(comms))
  IN IF dbg /\ total # 0 THEN "panic"
     ELSE IF ~canon.some THEN (IF e = "Ristretto" THEN "panic" ELSE "Err")
     ELSE IF dbg /\ rec.status = "Err"
          THEN (IF e = "Ristretto" THEN "panic" ELSE "Err")
     ELSE IF dbg /\ rec.point # to_public_key(e, canon.v) THEN "panic"
     ELSE "Ok"

\* The loop is over: the checks after it, and the return.
Finish ==
  /\ pc = "loop"
  /\ i = bits
  /\ pc' = "done"
  /\ result' = AfterLoop(engine, debug, key, blinding_key_total, commitments)
  /\ UNCHANGED <<engine, debug, task, key, bits, i, blinding_key_total,
                 power_of_two, commitments, rng, drawn, prev, recon>>
  /\ UNCHANGED <<sigVars, ring>>

\* The caller calls generate_commitments again with the same key, the same
\* bits and the same stream of blinding keys.
CallAgain ==
  /\ task = "commit"
  /\ pc = "done"
  /\ result = "Ok"
  /\ ~prev.set
  /\ ~recon.called
  /\ prev' = [set |-> TRUE, commitments |-> commitments]
  /\ pc' = "loop"
  /\ i' = 0
  /\ blinding_key_total' = 0
  /\ power_of_two' = 1
  /\ commitments' = <<>>
  /\ result' = "none"
  /\ drawn' = 0
  /\ UNCHANGED <<engine, debug, task, key, bits, rng, recon>>
  /\ UNCHANGED <<sigVars, ring>>

\* The small-order points of the engine's group.
TorsionPoints(e) == {[p |-> 0, t |-> t] : t \in 0..(Cofactor(e) - 1)}

\* comms with the point T added to the commitment at position at (none
\* when at = 0).
Perturbed(e, comms, at, T) ==
  [j \in 1..Len(comms) |-> IF j = at THEN PointAdd(e, comms[j], T) ELSE comms[j]]

\* The caller hands the returned commitment fields, as they are or with a
\* small-order point added to one of them, to reconstruct_key.
Reconstruct ==
  /\ task = "commit"
  /\ pc = "done"
  /\ result = "Ok"
  /\ ~recon.called
  /\ \E at \in 0..Len(commitments), T \in TorsionPoints(engine) :
       /\ (at = 0) = (T.t = 0)
       /\ LET input == Perturbed(engine, CommitmentFields(commitments), at, T)
              r == reconstruct_key(engine, input)
          IN recon' = [called |-> TRUE, torsion |-> T.t, at |-> at,
                       input |-> input, status |-> r.status, point |-> r.point]
  /\ UNCHANGED <<engine, debug, task, pc, key, bits, i, blinding_key_total,
                 power_of_two, commitments, result, rng, drawn, prev>>
  /\ UNCHANGED <<sigVars, ring>>

\* ----------------------------------------------------- signing, decoding

\* The private keys, messages, digests, points and byte strings the callers
\* use.
SignKeys == {0, 1, 5, Order - 1}

Messages == {<<>>} \cup {<<b>> : b \in 0..MaxMsgByte}

DigestValues == {0, 3, Order, 256 + 5, 256 * Order + 2}

Digests == {ToLittleEndian(v, 2 * ScalarLen) : v \in DigestValues}

OtherPoints(e) ==
  {[p |-> p, t |-> t] : p \in {0, 1, 5, 6}, t \in {0, 4} \cap 0..(Cofactor(e) - 1)}

ScalarByteValues == 0..(2 * Order) \cup {255}

PointByteValues == {0, 5, Order, Order * 8 - 1, Order * 8, 255}

\* The digests the hash can give for input q: the one it gave before, or
\* any when q is hashed for the first time.  oracle is a sequence of
\* <<input, digest>> pairs.
Hashed(orc, q) == {k \in 1..Len(orc) : orc[k][1] = q}

DigestsOf(orc, q) ==
  IF Hashed(orc, q) = {} THEN Digests
  ELSE {orc[k][2] : k \in Hashed(orc, q)}

Record(orc, q, d) ==
  IF Hashed(orc, q) = {} THEN Append(orc, <<q, d>>) ELSE orc

\* sign(key, message).  The Ed25519 engine draws its nonce, the Ristretto
\* engine hashes key || message for it.
Sign ==
  /\ task = "none"
  /\ task' = "sign"
  /\ \E k \in SignKeys, message \in Messages :
       \E nd \in DigestsOf(oracle, NonceInput(k, message)), r \in RandomScalars :
         LET ristretto == engine = "Ristretto"
             nonce == IF ristretto THEN from_bytes_mod_order_wide(nd) ELSE r
             orc1 == IF ristretto
                     THEN Record(oracle, NonceInput(k, message), nd)
                     ELSE oracle
             R == PointMul(engine, nonce, BASEPOINT)
             A == to_public_key(engine, k)
             q == ChallengeInput(engine, R, A, message)
         IN /\ ristretto => r = 0
            /\ ~ristretto => nd = ToLittleEndian(0, 2 * ScalarLen)
            /\ \E d \in DigestsOf(orc1, q) :
                 LET c == Challenge(engine, d)
                 IN /\ oracle' = Record(orc1, q, d)
                    /\ signed' = [done |-> TRUE, key |-> k, message |-> message,
                                  nonce |-> nonce, R |-> R,
                                  s |-> SignResponse(engine, nonce, c, k),
                                  input |-> q, digest |-> d, c |-> c]
  /\ UNCHANGED <<engine, debug, genVars, verified, decoded>>

\* verify_signature(public_key, message, signature) with these arguments.
VerifyWith(altered, A, message, R, s) ==
  LET q == ChallengeInput(engine, R, A, message)
  IN \E d \in DigestsOf(oracle, q) :
       LET c == Challenge(engine, d)
       IN /\ oracle' = Record(oracle, q, d)
          /\ verified' =
               [done |-> TRUE, altered |-> altered, public_key |-> A,
                message |-> message, R |-> R, s |-> s, input |-> q,
                digest |-> d, c |-> c,
                status |-> IF VerifyEquation(engine, A, c, R, s)
                           THEN "Ok" ELSE "Err"]

\* The caller verifies the signature it got from sign, under the signer's
\* public key and message.
Verify ==
  /\ task = "sign"
  /\ signed.done
  /\ ~verified.done
  /\ VerifyWith("none", to_public_key(engine, signed.key), signed.message,
                signed.R, signed.s)
  /\ UNCHANGED <<engine, debug, task, genVars, signed, decoded>>

\* The caller verifies it with one of the message, the public key, R and s
\* replaced by a different value.
VerifyAltered ==
  /\ task = "sign"
  /\ signed.done
  /\ ~verified.done
  /\ LET A == to_public_key(engine, signed.key)
     IN \/ \E m \in Messages \ {signed.message} :
             VerifyWith("message", A, m, signed.R, signed.s)
        \/ \E B \in OtherPoints(engine) \ {A} :
             VerifyWith("public_key", B, signed.message, signed.R, signed.s)
        \/ \E Q \in OtherPoints(engine) \ {signed.R} :
             VerifyWith("R", A, signed.message, Q, signed.s)
        \/ \E x \in Scalar \ {signed.s} :
             VerifyWith("s", A, signed.message, signed.R, x)
  /\ UNCHANGED <<engine, debug, task, genVars, signed, decoded>>

\* The caller decodes a private key.
DecodePrivateKey ==
  /\ task = "none"
  /\ task' = "decode"
  /\ \E v \in ScalarByteValues :
       LET bytes == ToLittleEndian(v, ScalarLen)
           r == little_endian_bytes_to_private_key(engine, bytes)
       IN decoded' = [done |-> TRUE, op |-> "private_key", bytes |-> bytes,
                      status |-> r.status, v |-> r.v, R |-> Identity]
  /\ UNCHANGED <<engine, debug, genVars, oracle, signed, verified>>

\* The caller decodes a signature: of the right length, or one byte short
\* or long.
DecodeSignature ==
  /\ task = "none"
  /\ task' = "decode"
  /\ \E rb \in PointByteValues, sb \in ScalarByteValues, n \in 1..(SignatureLen + 1) :
       LET bytes == SubSeq(<<rb, sb, 0>>, 1, n)
           r == bytes_to_signature(engine, bytes)
       IN decoded' = [done |-> TRUE, op |-> "signature", bytes |-> bytes,
                      status |-> r.status, v |-> r.s, R |-> r.R]
  /\ UNCHANGED <<engine, debug, genVars, oracle, signed, verified>>

\* ------------------------------------------------------- ring primitives

\* The challenges and nonces the ring assembler uses.
ChallengeValues == {0, 5, Order, Order + 3, 255}

RingChallenges == {ToLittleEndian(v, ScalarLen) : v \in {5, Order}}

RingNonces == {1, 7}

\* compute_signature_s(nonce, challenge, key), then compute_signature_R of
\* its result with the same challenge under public key P.
RoundTrip(at, side, nonce, challenge, k, P) ==
  LET s_value == compute_signature_s(engine, nonce, challenge, k)
      r == compute_signature_R(engine, s_value, challenge, P)
  IN ring' = [done |-> TRUE, at |-> at, side |-> side, nonce |-> nonce,
              key |-> k, challenge |-> challenge, public_key |-> P,
              s |-> s_value, status |-> r.status, R |-> r.point]

\* The caller makes the round trip for a nonce, a key and a challenge under
\* blinding_key_to_public(key).
RingRoundTrip ==
  /\ task = "none"
  /\ task' = "ring"
  /\ \E nonce \in Scalar, k \in Scalar, v \in ChallengeValues :
       RoundTrip(0, "public", nonce, ToLittleEndian(v, ScalarLen), k,
                 blinding_key_to_public(engine, k))
  /\ UNCHANGED <<engine, debug, pc, key, bits, i, blinding_key_total,
                 power_of_two, commitments, result, rng, drawn, prev, recon,
                 sigVars>>

\* The caller makes the round trip with the blinding key of a returned
\* Commitment, under its commitment or under commitment_sub_one of it.
RingOverCommitment ==
  /\ task = "commit"
  /\ pc = "done"
  /\ result = "Ok"
  /\ ~prev.set
  /\ ~recon.called
  /\ task' = "ring"
  /\ \E at \in 1..Len(commitments), side \in {"commitment", "sub_one"},
        nonce \in RingNonces, challenge \in RingChallenges :
       RoundTrip(at, side, nonce, challenge, commitments[at].blinding_key,
                 IF side = "commitment" THEN commitments[at].commitment
                 ELSE commitment_sub_one(engine, commitments[at].commitment))
  /\ UNCHANGED <<engine, debug, pc, key, bits, i, blinding_key_total,
                 power_of_two, commitments, result, rng, drawn, prev, recon,
                 sigVars>>

Next ==
  \/ CallGenerate
  \/ LoopStep
  \/ Finish
  \/ CallAgain
  \/ Reconstruct
  \/ Sign
  \/ Verify
  \/ VerifyAltered
  \/ DecodePrivateKey
  \/ DecodeSignature
  \/ RingRoundTrip
  \/ RingOverCommitment

Spec == Init /\ [][Next]_vars


\* ------------------------------------------------------------------ claims

\* The secret the key bytes encode.
Secret == LittleEndianValue(key)

\* The caller reconstructed from the commitment fields as they were returned.
ReconstructedAsReturned == recon.called /\ recon.at = 0

RECURSIVE BlindingSum(_, _)
BlindingSum(comms, n) ==
  IF n = 0 THEN 0
  ELSE (BlindingSum(comms, n - 1) + comms[n].blinding_key * 2^(n - 1)) % Order

\* C2: during the loop blinding_key_total is the sum of blinding_key_j * 2^j
\* over the iterations done so far; it is 0 when a loop of bits >= 1
\* iterations exits, and so is the sum over every returned commitment set.
C2_BlindingSum ==
  /\ pc = "loop" =>
       /\ Len(commitments) = i
       /\ blinding_key_total = BlindingSum(commitments, i)
       /\ (i = bits /\ bits >= 1) => blinding_key_total = 0
  /\ (pc = "done" /\ result = "Ok" /\ bits >= 1) =>
       /\ Len(commitments) = bits
       /\ BlindingSum(commitments, bits) = 0
       /\ blinding_key_total = 0

C2_Witness ==
  /\ pc = "done"
  /\ result = "Ok"
  /\ bits = 3
  /\ commitments[1].blinding_key = 7
  /\ commitments[2].blinding_key = 1
  /\ commitments[3].blinding_key # 0

\* Bit j of the secret the key bytes encode.
SecretBit(j) == (Secret \div 2^j) % 2

\* C3: in every returned commitment, commitment_minus_one = commitment - G
\* and exactly one of the two equals blinding_key * H: commitment_minus_one
\* when the key's bit at that index is 1, commitment when it is 0.
C3_BitCorrectness ==
  (pc = "done" /\ result = "Ok") =>
    \A j \in 1..Len(commitments) :
      LET c == commitments[j]
          bH == PointMul(engine, c.blinding_key, ALT_BASEPOINT)
      IN /\ c.commitment_minus_one = PointSub(engine, c.commitment, BASEPOINT)
         /\ (c.commitment = bH) # (c.commitment_minus_one = bH)
         /\ (c.commitment_minus_one = bH) = (SecretBit(j - 1) = 1)
         /\ (c.commitment = bH) = (SecretBit(j - 1) = 0)

C3_Witness ==
  /\ pc = "done"
  /\ result = "Ok"
  /\ Secret = 5
  /\ bits = scalar_bits
  /\ commitments[1].commitment_minus_one =
       PointMul(engine, commitments[1].blinding_key, ALT_BASEPOINT)
  /\ commitments[2].commitment =
       PointMul(engine, commitments[2].blinding_key, ALT_BASEPOINT)


\* C4: verify_signature(to_public_key(k), m, sign(k, m)) returns Ok, for
\* every engine, key, message and nonce.
C4_Completeness ==
  (verified.done /\ verified.altered = "none") => verified.status = "Ok"

C4_Witness ==
  /\ verified.done
  /\ verified.altered = "none"
  /\ signed.key = 5
  /\ signed.c # 0
  /\ signed.nonce # 0
  /\ verified.status = "Ok"

\* The hash treated as collision-free: a verification that hashed another
\* input than sign did got another digest.
NoCollision ==
  verified.input # signed.input => verified.digest # signed.digest

EngineChallenge ==
  IF engine = "Ed25519"
  THEN /\ verified.input = Compress(engine, verified.R)
                             \o Compress(engine, verified.public_key)
                             \o verified.message
       /\ verified.c = LittleEndianValue(verified.digest) % Order
  ELSE /\ verified.input = Compress(engine, verified.R) \o verified.message
       /\ verified.c = verified.digest[1] % Order

EngineAccepts ==
  IF engine = "Ed25519"
  THEN /\ (verified.s + Order * Order - verified.c * verified.public_key.p) % Order
            = verified.R.p
       /\ (64 * 8 - verified.c * verified.public_key.t) % 8 = verified.R.t
  ELSE (verified.c * verified.public_key.p + verified.s) % Order = verified.R.p

RECURSIVE TorsionOfSum(_, _)
TorsionOfSum(input, n) ==
  IF n = 0 THEN 0
  ELSE (TorsionOfSum(input, n - 1) + input[n].t * 2^(n - 1)) % 8

\* C6: the Ed25519 engine's reconstruct_key returns Ok(res) only if the
\* weighted sum of the commitments is torsion-free, and returns the torsion
\* error whenever that sum has a nonzero small-order component.
C6_TorsionRejection ==
  (recon.called /\ engine = "Ed25519") =>
    /\ recon.status = "Ok" =>
         (TorsionOfSum(recon.input, Len(recon.input)) = 0 /\ recon.point.t = 0)
    /\ TorsionOfSum(recon.input, Len(recon.input)) # 0 => recon.status = "Err"

C6_Witness ==
  /\ recon.called
  /\ engine = "Ed25519"
  /\ recon.torsion = 1
  /\ recon.at = 3
  /\ recon.status = "Err"

\* C7 as stated: generate_commitments on key bytes that encode a value at or
\* above the group order ends with an error result, for every engine.
C7_Original ==
  (pc = "done" /\ Secret >= Order) => result = "Err"

\* C8 as stated: decoding 32 bytes that encode a value at or above the group
\* order into a private key, or into the s of a signature, fails, for every
\* engine, and decoding the bytes of an in-range value returns that value.
C8_Original ==
  decoded.done =>
    LET sbytes == IF decoded.op = "private_key" THEN decoded.bytes
                  ELSE SubSeq(decoded.bytes, PointLen + 1, Len(decoded.bytes))
    IN /\ (Len(sbytes) = ScalarLen /\ LittleEndianValue(sbytes) >= Order)
            => decoded.status # "Ok"
       /\ (decoded.op = "private_key" /\ LittleEndianValue(sbytes) < Order)
            => (decoded.status = "Ok" /\ decoded.v = LittleEndianValue(sbytes))

\* C9 as stated: generate_commitments with bits = 0 is rejected as an error,
\* and commitments are only returned when 1 <= bits <= scalar_bits().
C9_Original ==
  /\ (pc = "done" /\ bits = 0) => result = "Err"
  /\ (pc = "done" /\ result = "Ok") => (1 <= bits /\ bits <= scalar_bits)

\* The inverse of 2^n modulo the order.
InverseOfPower(n) == CHOOSE x \in Scalar : (x * 2^n) % Order = 1

\* C10: a successful call with bits = n >= 1 returns n commitments and draws
\* n - 1 scalars, the j-th drawn being blinding_key_j; the last blinding key
\* is -acc * (2^(n-1))^-1, not drawn; and a second call with the same key,
\* bits and stream returns the same commitments.
C10_SinglePass ==
  (pc = "done" /\ result = "Ok" /\ bits >= 1) =>
    /\ Len(commitments) = bits
    /\ drawn = bits - 1
    /\ Len(rng) = bits - 1
    /\ \A j \in 1..(bits - 1) : commitments[j].blinding_key = rng[j]
    /\ commitments[bits].blinding_key =
         ((Order - BlindingSum(commitments, bits - 1)) * InverseOfPower(bits - 1))
           % Order
    /\ prev.set => commitments = prev.commitments

C10_Witness ==
  /\ pc = "done"
  /\ result = "Ok"
  /\ prev.set
  /\ bits = scalar_bits
  /\ rng = <<7, 1, 16>>
  /\ commitments = prev.commitments


\* The challenge of the round trip as a scalar.
RingChallenge == LittleEndianValue(ring.challenge) % Order

\* nonce * H, from the discrete logarithm of H.
NonceTimesH == [p |-> (ring.nonce * ALT_BASEPOINT.p) % Order, t |-> 0]

\* The side of the Commitment at position at that its key bit selects.
SideOfBit(at) == IF SecretBit(at - 1) = 1 THEN "sub_one" ELSE "commitment"

\* C11: compute_signature_R(compute_signature_s(nonce, c, key), c,
\* blinding_key_to_public(key)) succeeds and equals nonce * H, for all nonces,
\* keys and challenges; and of a generated Commitment's two points, commitment
\* and commitment_sub_one(commitment), the one its key bit selects is the
\* public key under which the round trip with its blinding key closes (the
\* other one closes it only when the challenge is 0 modulo the order).
C11_RingRoundTrip ==
  ring.done =>
    /\ ring.status = "Ok"
    /\ ring.side = "public" => ring.R = NonceTimesH
    /\ (ring.at > 0 /\ ring.side = SideOfBit(ring.at)) =>
         /\ ring.public_key = blinding_key_to_public(engine, ring.key)
         /\ ring.R = NonceTimesH
    /\ (ring.at > 0 /\ ring.side # SideOfBit(ring.at) /\ RingChallenge # 0) =>
         ring.R # NonceTimesH

C11_Witness ==
  /\ ring.done
  /\ ring.at = 2
  /\ ring.side = "commitment"
  /\ SecretBit(1) = 0
  /\ ring.key = 7
  /\ ring.nonce = 1
  /\ RingChallenge = 5
  /\ ring.R = NonceTimesH

C11_WitnessPublic ==
  /\ ring.done
  /\ ring.side = "public"
  /\ ring.key = 11
  /\ ring.nonce = 6
  /\ LittleEndianValue(ring.challenge) = Order + 3
  /\ ring.R = NonceTimesH

====
